---- MODULE Spec2Model ----
(***************************************************************************)
(* Model of v2/pkg/protocols/headless/engine/page.go: one browser tab      *)
(* session (Page), its construction by Instance.Run, its hijack mechanism, *)
(* the mutex-guarded History / InteractshURLs ledgers and Close.           *)
(*                                                                         *)
(* Two specifications share the variables and the ledger actions:          *)
(*   Spec        the life of one session: Run step by step, the hijack     *)
(*               handlers that record exchanges, and the caller's          *)
(*               DumpHistory / URL / Close on the returned session;        *)
(*   SpecLedger  a live session whose ledgers are appended to and dumped   *)
(*               by several goroutines at once, with batches of entries.   *)
(***************************************************************************)
EXTENDS Integers, Sequences, FiniteSets, TLC

\* ------------------------------------------------------------- bounds
\* longest action list handed to Run
MaxActions == 2
\* hijack handler invocations (exchanges) / goroutines appending to a ledger
NumHandlers == 2
\* goroutines calling DumpHistory
NumReaders == 2
\* entries one addToHistory / addInteractshURL call may carry (variadic)
MaxBatch == 2
\* longest rule list of a session
MaxRules == 2

\* ------------------------------------------------------------- values
\* ActionType: the five request-modifying kinds and two others
ModificationTypes ==
    {"ActionSetMethod", "ActionAddHeader", "ActionSetHeader",
     "ActionDeleteHeader", "ActionSetBody"}

ActionTypes == ModificationTypes \cup {"ActionNavigate", "ActionClick"}

\* the action lists Run may be given: 1..MaxActions action types
ActionLists == UNION {[1..n -> ActionTypes] : n \in 1..MaxActions}

Handlers == 1..NumHandlers

Readers == (NumHandlers + 1)..(NumHandlers + NumReaders)

Procs == Handlers \cup Readers

\* the goroutine that called Run and holds the session it returned
Caller == NumHandlers + 1

\* what page.Info() may report as the page's URL
URLs == {"about:blank", "http://target/"}

\* raw texts are sequences of characters; exchange <<h, j>> is the j-th
\* exchange reported by goroutine h
ReqText(h, j) == <<0, h, j>>

RespText(h, j) == <<9, h>>

\* HistoryData (lines 27-30)
HistoryData(h, j) == [RawRequest |-> ReqText(h, j), RawResponse |-> RespText(h, j)]

\* the batch of k entries goroutine h passes to addToHistory
Batch(h, k) == [j \in 1..k |-> HistoryData(h, j)]

\* the out-of-band URLs goroutine h passes to addInteractshURL
OOBBatch(h, k) == [j \in 1..k |-> <<h, j>>]

VARIABLES
    actions,        \* Run's argument: the action list (types only)
    customAgent,    \* i.browser.customAgent != ""
    runPc,          \* where Run is
    ret,            \* what Run returned: [data, page, err]
    tab,            \* the driver's tab behind Page.page: none / open / closed
    rules,          \* Page.rules
    hijackRouter,   \* Page.hijackRouter: "nil" or "set"
    hijackNative,   \* Page.hijackNative: "nil" or "set"
    routerRunning,  \* the goroutine of hijackRouter.Run() is intercepting
    nativeRunning,  \* the goroutine of the native hijack loop is intercepting
    History,        \* Page.History
    InteractshURLs, \* Page.InteractshURLs
    mutex,          \* Page.mutex: [w: the writer holding it or 0, r: readers holding it]
    pc,             \* each goroutine's position
    arg,            \* each goroutine's variadic argument of the ledger call
    tmp,            \* each goroutine's local slice (append's read / range's copy)
    idx,            \* DumpHistory's loop index
    dump,           \* DumpHistory's strings.Builder, then its return value
    closePc,        \* where Close is
    closed,         \* a call of Close has returned
    urlCall,        \* the last URL() call: the lookup's outcome and the return value
    payloads,       \* Page.payloads
    stopErr,        \* the last Stop of Close returned an error (which Close drops)
    forwarded       \* the last request a request-stage handler forwarded

vars == <<actions, customAgent, runPc, ret, tab, rules, hijackRouter, hijackNative,
          routerRunning, nativeRunning, History, InteractshURLs, mutex, pc, arg,
          tmp, idx, dump, closePc, closed, urlCall, payloads, stopErr, forwarded>>

runVars == <<actions, customAgent, runPc, ret, rules, hijackRouter, hijackNative, payloads>>

ledgerVars == <<History, InteractshURLs, mutex, pc, arg, tmp, idx, dump>>

callerVars == <<closePc, closed, urlCall, stopErr>>

\* ------------------------------------------------- mode selection
\* containsAnyModificationActionType (lines 164-180): first match returns true
RECURSIVE containsAnyModificationActionType(_)
containsAnyModificationActionTypeNoSetBody(actionTypes) ==
    \E i \in 1..Len(actionTypes) :
        actionTypes[i] \in ModificationTypes \ {"ActionSetBody"}

containsAnyModificationActionType(actionTypes) ==
    IF actionTypes = <<>> THEN FALSE
    ELSE CASE Head(actionTypes) = "ActionSetMethod" -> TRUE
           [] Head(actionTypes) = "ActionAddHeader" -> TRUE
           [] Head(actionTypes) = "ActionSetHeader" -> TRUE
           [] Head(actionTypes) = "ActionDeleteHeader" -> TRUE
           [] Head(actionTypes) = "ActionSetBody" -> TRUE
           [] OTHER -> containsAnyModificationActionType(Tail(actionTypes))

\* Page.hasModificationRules (lines 146-153): one call per rule, on rule.Action
RECURSIVE hasModificationRules(_)
hasModificationRules(rs) ==
    IF rs = <<>> THEN FALSE
    ELSE IF containsAnyModificationActionType(<<Head(rs).Action>>) THEN TRUE
    ELSE hasModificationRules(Tail(rs))

\* containsModificationActions (lines 155-162): one call per action, on its type
RECURSIVE containsModificationActions(_)
containsModificationActions(as) ==
    IF as = <<>> THEN FALSE
    ELSE IF containsAnyModificationActionType(<<Head(as)>>) THEN TRUE
    ELSE containsModificationActions(Tail(as))

\* ------------------------------------------------------------- Run
NoReturn == [data |-> "nil", page |-> "nil", err |-> "nil"]

\* the payload map Run is given (line 33); createdPage keeps it (line 46)
RunPayloads == [username |-> "admin"]

\* return nil, nil, err (lines 36, 42, 52, 74, 78, 83)
RunFailureKeepsPage(stage) == [data |-> "nil", page |-> "createdPage", err |-> stage]

RunFailure(stage) == [data |-> "nil", page |-> "nil", err |-> stage]

\* return data, createdPage, nil (line 85)
RunSuccess == [data |-> "map", page |-> "createdPage", err |-> "nil"]

\* lines 34-38: i.engine.Page(...)
RunCreatePage ==
    /\ runPc = "page"
    /\ \/ /\ tab' = "open"
          /\ runPc' = "agent"
          /\ UNCHANGED ret
       \/ /\ ret' = RunFailure("engine.Page")
          /\ runPc' = "returned"
          /\ UNCHANGED tab
    /\ UNCHANGED <<actions, customAgent, rules, hijackRouter, hijackNative,
                   payloads, routerRunning, nativeRunning, ledgerVars, callerVars,
                   forwarded>>

\* lines 40-44: page.SetUserAgent, only with a custom agent
RunSetUserAgent ==
    /\ runPc = "agent"
    /\ \/ /\ ~customAgent
          /\ runPc' = "hijack"
          /\ UNCHANGED ret
       \/ /\ customAgent
          /\ runPc' = "hijack"
          /\ UNCHANGED ret
       \/ /\ customAgent
          /\ ret' = RunFailure("page.SetUserAgent")
          /\ runPc' = "returned"
    /\ UNCHANGED <<actions, customAgent, tab, rules, hijackRouter, hijackNative,
                   payloads, routerRunning, nativeRunning, ledgerVars, callerVars,
                   forwarded>>

\* lines 46-67: createdPage is built (rules, History, InteractshURLs unset), the
\* mode is chosen and the hijack installed.  hijackRouter.Add may fail; the
\* native loop's error is discarded (line 65), so that loop may not be running.
RunInstallHijack ==
    /\ runPc = "hijack"
    /\ rules' = <<>>
    /\ payloads' = RunPayloads
    /\ IF hasModificationRules(rules') \/ containsModificationActions(actions)
       THEN \/ /\ hijackRouter' = "set"
               /\ routerRunning' = TRUE
               /\ runPc' = "viewport"
               /\ UNCHANGED <<ret, hijackNative, nativeRunning>>
            \/ /\ ret' = RunFailure("hijackRouter.Add")
               /\ runPc' = "returned"
               /\ UNCHANGED <<hijackRouter, routerRunning, hijackNative, nativeRunning>>
       ELSE /\ hijackNative' = "set"
            /\ nativeRunning' \in BOOLEAN
            /\ runPc' = "viewport"
            /\ UNCHANGED <<ret, hijackRouter, routerRunning>>
    /\ UNCHANGED <<actions, customAgent, tab, ledgerVars, callerVars, forwarded>>

\* lines 69-75: page.SetViewport
RunSetViewport ==
    /\ runPc = "viewport"
    /\ \/ /\ runPc' = "headers"
          /\ UNCHANGED ret
       \/ /\ ret' = RunFailure("page.SetViewport")
          /\ runPc' = "returned"
    /\ UNCHANGED <<actions, customAgent, tab, rules, hijackRouter, hijackNative,
                   payloads, routerRunning, nativeRunning, ledgerVars, callerVars,
                   forwarded>>

\* lines 77-79: page.SetExtraHeaders
RunSetExtraHeaders ==
    /\ runPc = "headers"
    /\ \/ /\ runPc' = "execute"
          /\ UNCHANGED ret
       \/ /\ ret' = RunFailure("page.SetExtraHeaders")
          /\ runPc' = "returned"
    /\ UNCHANGED <<actions, customAgent, tab, rules, hijackRouter, hijackNative,
                   payloads, routerRunning, nativeRunning, ledgerVars, callerVars,
                   forwarded>>

\* line 81, the call: the list is handed to the pipeline and Run does not read
\* it again; from here on the tab issues requests
RunExecuteActions ==
    /\ runPc = "execute"
    /\ actions' = <<>>
    /\ runPc' = "actions"
    /\ UNCHANGED <<customAgent, ret, tab, rules, hijackRouter, hijackNative,
                   payloads, routerRunning, nativeRunning, ledgerVars, callerVars,
                   forwarded>>

\* lines 81-85, the pipeline's return: its error, or the data and the session
RunReturnDropsLedgers ==
    /\ runPc = "actions"
    /\ \/ /\ ret' = RunSuccess
          /\ UNCHANGED <<History, InteractshURLs>>
       \/ /\ ret' = RunFailure("ExecuteActions")
          /\ History' = <<>>
          /\ InteractshURLs' = <<>>
    /\ runPc' = "returned"
    /\ UNCHANGED <<actions, customAgent, tab, rules, hijackRouter, hijackNative,
                   payloads, routerRunning, nativeRunning, mutex, pc, arg, tmp, idx,
                   dump, callerVars, forwarded>>

RunReturn ==
    /\ runPc = "actions"
    /\ \/ ret' = RunSuccess
       \/ ret' = RunFailure("ExecuteActions")
    /\ runPc' = "returned"
    /\ UNCHANGED <<actions, customAgent, tab, rules, hijackRouter, hijackNative,
                   payloads, routerRunning, nativeRunning, ledgerVars, callerVars,
                   forwarded>>

\* the caller holds a session: Run returned createdPage
HasSession == runPc = "returned" /\ ret.page = "createdPage"

\* ------------------------------------------------------------- mutex
\* sync.RWMutex: Lock waits until no writer and no reader holds it (line 133, 140)
CanLockNoExclusion(m) == TRUE

CanLock(m) == m.w = 0 /\ m.r = {}

\* RLock waits until no writer holds it (line 120)
CanRLockIgnoresWriter(m) == TRUE

CanRLock(m) == m.w = 0

\* ------------------------------------------------------------- ledgers
\* append(slice, batch...) (lines 136, 143)
appendPrepends(slice, batch) == batch \o slice

append(slice, batch) == slice \o batch

\* lines 132-136: Lock, then append reads the slice p.History
AddToHistoryLock(p) ==
    /\ pc[p] = "addToHistory"
    /\ CanLock(mutex)
    /\ mutex' = [mutex EXCEPT !.w = p]
    /\ tmp' = [tmp EXCEPT ![p] = History]
    /\ pc' = [pc EXCEPT ![p] = "storeHistory"]
    /\ UNCHANGED <<History, InteractshURLs, arg, idx, dump>>

\* lines 136-137: the appended slice is stored in p.History; the deferred Unlock
AddToHistoryStoreClearsURLs(p) ==
    /\ pc[p] = "storeHistory"
    /\ History' = append(tmp[p], arg[p])
    /\ InteractshURLs' = <<>>
    /\ mutex' = [mutex EXCEPT !.w = 0]
    /\ tmp' = [tmp EXCEPT ![p] = <<>>]
    /\ pc' = [pc EXCEPT ![p] = "recorded"]
    /\ UNCHANGED <<arg, idx, dump>>

AddToHistoryStore(p) ==
    /\ pc[p] = "storeHistory"
    /\ History' = append(tmp[p], arg[p])
    /\ mutex' = [mutex EXCEPT !.w = 0]
    /\ tmp' = [tmp EXCEPT ![p] = <<>>]
    /\ pc' = [pc EXCEPT ![p] = "recorded"]
    /\ UNCHANGED <<InteractshURLs, arg, idx, dump>>

\* lines 139-143: Lock, then append reads the slice p.InteractshURLs
AddInteractshURLLock(p) ==
    /\ pc[p] = "addInteractshURL"
    /\ CanLock(mutex)
    /\ mutex' = [mutex EXCEPT !.w = p]
    /\ tmp' = [tmp EXCEPT ![p] = InteractshURLs]
    /\ pc' = [pc EXCEPT ![p] = "storeURLs"]
    /\ UNCHANGED <<History, InteractshURLs, arg, idx, dump>>

\* lines 143-144: the appended slice is stored; the deferred Unlock
AddInteractshURLStoreOverwrites(p) ==
    /\ pc[p] = "storeURLs"
    /\ InteractshURLs' = arg[p]
    /\ mutex' = [mutex EXCEPT !.w = 0]
    /\ tmp' = [tmp EXCEPT ![p] = <<>>]
    /\ pc' = [pc EXCEPT ![p] = "done"]
    /\ UNCHANGED <<History, arg, idx, dump>>

AddInteractshURLStore(p) ==
    /\ pc[p] = "storeURLs"
    /\ InteractshURLs' = append(tmp[p], arg[p])
    /\ mutex' = [mutex EXCEPT !.w = 0]
    /\ tmp' = [tmp EXCEPT ![p] = <<>>]
    /\ pc' = [pc EXCEPT ![p] = "done"]
    /\ UNCHANGED <<History, arg, idx, dump>>

\* lines 119-124: RLock, an empty builder, and range evaluates p.History once
DumpHistoryRLock(p) ==
    /\ pc[p] = "DumpHistory"
    /\ CanRLock(mutex)
    /\ mutex' = [mutex EXCEPT !.r = @ \cup {p}]
    /\ tmp' = [tmp EXCEPT ![p] = History]
    /\ idx' = [idx EXCEPT ![p] = 1]
    /\ dump' = [dump EXCEPT ![p] = <<>>]
    /\ pc' = [pc EXCEPT ![p] = "range"]
    /\ UNCHANGED <<History, InteractshURLs, arg>>

\* lines 125-126: one iteration writes the request, then the response
WriteEntryResponseFirst(b, historyData) == b \o historyData.RawResponse \o historyData.RawRequest

WriteEntry(b, historyData) == b \o historyData.RawRequest \o historyData.RawResponse

DumpHistoryIterate(p) ==
    /\ pc[p] = "range"
    /\ idx[p] <= Len(tmp[p])
    /\ dump' = [dump EXCEPT ![p] = WriteEntry(dump[p], tmp[p][idx[p]])]
    /\ idx' = [idx EXCEPT ![p] = idx[p] + 1]
    /\ UNCHANGED <<History, InteractshURLs, mutex, pc, arg, tmp>>

\* lines 128-129 and the deferred RUnlock of line 121: the builder's string is returned
DumpHistoryReturnKeepsRLock(p) ==
    /\ pc[p] = "range"
    /\ idx[p] > Len(tmp[p])
    /\ pc' = [pc EXCEPT ![p] = "dumped"]
    /\ UNCHANGED <<History, InteractshURLs, mutex, arg, tmp, idx, dump>>

DumpHistoryReturn(p) ==
    /\ pc[p] = "range"
    /\ idx[p] > Len(tmp[p])
    /\ mutex' = [mutex EXCEPT !.r = @ \ {p}]
    /\ pc' = [pc EXCEPT ![p] = "dumped"]
    /\ UNCHANGED <<History, InteractshURLs, arg, tmp, idx, dump>>

\* ------------------------------------------------------------- rules
\* The rule type and the request-stage handler that applies the rules
\* (routingRuleHandler) are not in page.go; they follow the design: a rule is
\* an action type with its arguments, and the handler applies the session's
\* rules to the outbound request in rule order, then forwards it.
HeaderNames == {"X-Test", "Accept"}

HeaderValues == {"1", "2"}

\* rule (Page.rules, line 16): rule.Action (line 148) and the mutation's arguments
Rules ==
    [Action : {"ActionSetHeader", "ActionAddHeader"}, name : HeaderNames, value : HeaderValues]
    \cup [Action : {"ActionDeleteHeader"}, name : HeaderNames, value : {""}]
    \cup [Action : {"ActionSetMethod"}, name : {""}, value : {"POST"}]
    \cup [Action : {"ActionSetBody"}, name : {""}, value : {"a=b"}]

\* the rule lists a session may hold: 0..MaxRules rules
RuleLists == UNION {[1..n -> Rules] : n \in 0..MaxRules}

\* the requests the tab may issue: each header absent or carrying one value
Requests ==
    [method : {"GET"}, headers : [HeaderNames -> {<<>>, <<"0">>}], body : {""}]

NoForward == [done |-> FALSE, req |-> "none", out |-> "none"]

\* one rule's mutation of the request
ApplyRuleDeleteKeeps(req, r) ==
    CASE r.Action = "ActionSetMethod" -> [req EXCEPT !.method = r.value]
      [] r.Action = "ActionAddHeader" -> [req EXCEPT !.headers[r.name] = Append(@, r.value)]
      [] r.Action = "ActionSetHeader" -> [req EXCEPT !.headers[r.name] = <<r.value>>]
      [] r.Action = "ActionSetBody" -> [req EXCEPT !.body = r.value]
      [] OTHER -> req

ApplyRule(req, r) ==
    CASE r.Action = "ActionSetMethod" -> [req EXCEPT !.method = r.value]
      [] r.Action = "ActionAddHeader" -> [req EXCEPT !.headers[r.name] = Append(@, r.value)]
      [] r.Action = "ActionSetHeader" -> [req EXCEPT !.headers[r.name] = <<r.value>>]
      [] r.Action = "ActionDeleteHeader" -> [req EXCEPT !.headers[r.name] = <<>>]
      [] r.Action = "ActionSetBody" -> [req EXCEPT !.body = r.value]
      [] OTHER -> req

\* the rules applied in rule order, a later rule to what the earlier ones left
RECURSIVE ApplyRules(_, _)
ApplyRules(rs, req) ==
    IF rs = <<>> THEN req
    ELSE ApplyRules(Tail(rs), ApplyRule(req, Head(rs)))

\* the router calls the handler with an outbound request: the rules are
\* applied and the request is forwarded
HandlerForward ==
    /\ routerRunning
    /\ tab = "open"
    /\ \E req \in Requests :
          forwarded' = [done |-> TRUE, req |-> req, out |-> ApplyRules(rules, req)]
    /\ UNCHANGED <<runVars, tab, routerRunning, nativeRunning, ledgerVars, callerVars>>

\* ------------------------------------------------------------- handlers
\* The hijack handlers (routingRuleHandler, routingRuleHandlerNative) are not in
\* page.go; they follow the design's handler contract: forward the request,
\* wait for the response, append the pair to History, scan the response for
\* out-of-band URLs and append them to InteractshURLs.

\* the tab issues requests once the pipeline has been started (its first
\* navigation), and for as long as it is open
TrafficFlows ==
    /\ tab = "open"
    /\ \/ runPc = "actions"
       \/ runPc = "returned" /\ ret.err \in {"nil", "ExecuteActions"}

\* the hijack mechanism calls the handler for a new exchange: only while the
\* router or the native loop is running
HandlerIntercept(h) ==
    /\ pc[h] = "idle"
    /\ TrafficFlows
    /\ routerRunning \/ nativeRunning
    /\ pc' = [pc EXCEPT ![h] = "await"]
    /\ UNCHANGED <<History, InteractshURLs, mutex, arg, tmp, idx, dump>>

\* the response arrives and the handler calls addToHistory with the pair, or
\* the response is never captured and nothing is recorded
HandlerResponse(h) ==
    /\ pc[h] = "await"
    /\ \/ /\ arg' = [arg EXCEPT ![h] = Batch(h, 1)]
          /\ pc' = [pc EXCEPT ![h] = "addToHistory"]
       \/ /\ pc' = [pc EXCEPT ![h] = "done"]
          /\ UNCHANGED arg
    /\ UNCHANGED <<History, InteractshURLs, mutex, tmp, idx, dump>>

\* after addToHistory returned: the scan finds no out-of-band URL, or finds one
\* and the handler calls addInteractshURL with it
HandlerScan(h) ==
    /\ pc[h] = "recorded"
    /\ \/ /\ pc' = [pc EXCEPT ![h] = "done"]
          /\ UNCHANGED arg
       \/ /\ arg' = [arg EXCEPT ![h] = OOBBatch(h, 1)]
          /\ pc' = [pc EXCEPT ![h] = "addInteractshURL"]
    /\ UNCHANGED <<History, InteractshURLs, mutex, tmp, idx, dump>>

\* ------------------------------------------------------------- the caller
\* between two calls on the session Run returned
CallerIdle == HasSession /\ pc[Caller] \in {"ready", "dumped"} /\ closePc = "idle"

\* a goroutine that is in no call calls DumpHistory (line 119)
DumpHistoryCall(p) ==
    /\ pc[p] \in {"ready", "dumped"}
    /\ pc' = [pc EXCEPT ![p] = "DumpHistory"]
    /\ UNCHANGED <<History, InteractshURLs, mutex, arg, tmp, idx, dump>>

\* hijackRouter.Stop / hijackNative.Stop: the loop is cancelled, whether or
\* not disabling interception then fails
Stop(running) == FALSE

\* lines 89-92: Close is called; the router, if any, is stopped and the error
\* of Stop dropped
CloseStopRouterSkipsStop ==
    /\ CallerIdle
    /\ closePc' = "native"
    /\ UNCHANGED <<runVars, tab, routerRunning, nativeRunning, ledgerVars, closed,
                   urlCall, stopErr, forwarded>>

CloseStopRouter ==
    /\ CallerIdle
    /\ IF hijackRouter # "nil"
       THEN /\ routerRunning' = Stop(routerRunning)
            /\ stopErr' \in BOOLEAN
       ELSE UNCHANGED <<routerRunning, stopErr>>
    /\ closePc' = "native"
    /\ UNCHANGED <<runVars, tab, nativeRunning, ledgerVars, closed, urlCall, forwarded>>

\* lines 93-95: the native hijack, if any, is stopped and the error of Stop dropped
CloseStopNative ==
    /\ closePc = "native"
    /\ IF hijackNative # "nil"
       THEN /\ nativeRunning' = Stop(nativeRunning)
            /\ stopErr' \in BOOLEAN
       ELSE UNCHANGED <<nativeRunning, stopErr>>
    /\ closePc' = "page"
    /\ UNCHANGED <<runVars, tab, routerRunning, ledgerVars, closed, urlCall, forwarded>>

\* line 96-97: the driver closes the tab (on a closed tab it only returns an
\* error, which is ignored); Close returns
ClosePageOnOpenTabOnly ==
    /\ closePc = "page"
    /\ tab = "open"
    /\ tab' = "closed"
    /\ closePc' = "idle"
    /\ closed' = TRUE
    /\ UNCHANGED <<runVars, routerRunning, nativeRunning, ledgerVars, urlCall,
                   stopErr, forwarded>>

ClosePageClearsHijack ==
    /\ closePc = "page"
    /\ tab' = "closed"
    /\ closePc' = "idle"
    /\ closed' = TRUE
    /\ hijackRouter' = "nil"
    /\ hijackNative' = "nil"
    /\ UNCHANGED <<actions, customAgent, runPc, ret, rules, payloads, routerRunning,
                   nativeRunning, ledgerVars, urlCall, stopErr, forwarded>>

ClosePage ==
    /\ closePc = "page"
    /\ tab' = "closed"
    /\ closePc' = "idle"
    /\ closed' = TRUE
    /\ UNCHANGED <<runVars, routerRunning, nativeRunning, ledgerVars, urlCall,
                   stopErr, forwarded>>

\* lines 111-115: the empty string when the lookup failed, else info.URL
URLReturnIgnoresErr(err, infoURL) == infoURL

URLReturn(err, infoURL) == IF err THEN "" ELSE infoURL

\* lines 110-116: URL() on the session; page.Info() fails or reports the URL
\* the tab is at
URL ==
    /\ CallerIdle
    /\ \E err \in BOOLEAN, infoURL \in URLs :
          urlCall' = [called |-> TRUE, err |-> err, infoURL |-> infoURL,
                      ret |-> URLReturn(err, infoURL)]
    /\ UNCHANGED <<runVars, tab, routerRunning, nativeRunning, ledgerVars,
                   closePc, closed, stopErr, forwarded>>

\* ------------------------------------------------------------- Spec
Init ==
    /\ actions \in ActionLists
    /\ customAgent \in BOOLEAN
    /\ runPc = "page"
    /\ ret = NoReturn
    /\ tab = "none"
    /\ rules = <<>>
    /\ hijackRouter = "nil"
    /\ hijackNative = "nil"
    /\ routerRunning = FALSE
    /\ nativeRunning = FALSE
    /\ History = <<>>
    /\ InteractshURLs = <<>>
    /\ mutex = [w |-> 0, r |-> {}]
    /\ pc = [p \in Procs |-> IF p \in Handlers THEN "idle" ELSE "ready"]
    /\ arg = [p \in Procs |-> <<>>]
    /\ tmp = [p \in Procs |-> <<>>]
    /\ idx = [p \in Procs |-> 0]
    /\ dump = [p \in Procs |-> <<>>]
    /\ closePc = "idle"
    /\ closed = FALSE
    /\ urlCall = [called |-> FALSE, err |-> FALSE, infoURL |-> "", ret |-> ""]
    /\ payloads = "nil"
    /\ stopErr = FALSE
    /\ forwarded = NoForward

\* what the goroutines' own steps leave alone
sessionVars == <<runVars, tab, routerRunning, nativeRunning, callerVars, forwarded>>

Next ==
    \/ RunCreatePage
    \/ RunSetUserAgent
    \/ RunInstallHijack
    \/ RunSetViewport
    \/ RunSetExtraHeaders
    \/ RunExecuteActions
    \/ RunReturn
    \/ CloseStopRouter
    \/ CloseStopNative
    \/ ClosePage
    \/ URL
    \/ \E h \in Handlers : HandlerIntercept(h) /\ UNCHANGED sessionVars
    \/ \E h \in Handlers : HandlerResponse(h) /\ UNCHANGED sessionVars
    \/ \E h \in Handlers : HandlerScan(h) /\ UNCHANGED sessionVars
    \/ CallerIdle /\ DumpHistoryCall(Caller) /\ UNCHANGED sessionVars
    \/ \E p \in Procs : AddToHistoryLock(p) /\ UNCHANGED sessionVars
    \/ \E p \in Procs : AddToHistoryStore(p) /\ UNCHANGED sessionVars
    \/ \E p \in Procs : AddInteractshURLLock(p) /\ UNCHANGED sessionVars
    \/ \E p \in Procs : AddInteractshURLStore(p) /\ UNCHANGED sessionVars
    \/ \E p \in Procs : DumpHistoryRLock(p) /\ UNCHANGED sessionVars
    \/ \E p \in Procs : DumpHistoryIterate(p) /\ UNCHANGED sessionVars
    \/ \E p \in Procs : DumpHistoryReturn(p) /\ UNCHANGED sessionVars

Spec == Init /\ [][Next]_vars

\* ------------------------------------------------------------- SpecLedger
\* A session Run has returned, its hijack running; goroutines (handlers or any
\* other code of the package) call the ledger methods at the same time, each
\* of them once.

\* a goroutine calls addToHistory with a batch of 1..MaxBatch entries (line 132)
AddToHistoryCall(p) ==
    /\ pc[p] = "caller"
    /\ \E k \in 1..MaxBatch : arg' = [arg EXCEPT ![p] = Batch(p, k)]
    /\ pc' = [pc EXCEPT ![p] = "addToHistory"]
    /\ UNCHANGED <<History, InteractshURLs, mutex, tmp, idx, dump>>

\* a goroutine calls addInteractshURL with 1..MaxBatch URLs (line 139)
AddInteractshURLCall(p) ==
    /\ pc[p] = "caller"
    /\ \E k \in 1..MaxBatch : arg' = [arg EXCEPT ![p] = OOBBatch(p, k)]
    /\ pc' = [pc EXCEPT ![p] = "addInteractshURL"]
    /\ UNCHANGED <<History, InteractshURLs, mutex, tmp, idx, dump>>

InitLedger ==
    /\ actions = <<>>
    /\ customAgent = FALSE
    /\ runPc = "returned"
    /\ ret = RunSuccess
    /\ tab = "open"
    /\ rules = <<>>
    /\ \/ /\ hijackRouter = "set"
          /\ hijackNative = "nil"
          /\ routerRunning = TRUE
          /\ nativeRunning = FALSE
       \/ /\ hijackRouter = "nil"
          /\ hijackNative = "set"
          /\ routerRunning = FALSE
          /\ nativeRunning = TRUE
    /\ History = <<>>
    /\ InteractshURLs = <<>>
    /\ mutex = [w |-> 0, r |-> {}]
    /\ pc = [p \in Procs |-> IF p \in Handlers THEN "caller" ELSE "ready"]
    /\ arg = [p \in Procs |-> <<>>]
    /\ tmp = [p \in Procs |-> <<>>]
    /\ idx = [p \in Procs |-> 0]
    /\ dump = [p \in Procs |-> <<>>]
    /\ closePc = "idle"
    /\ closed = FALSE
    /\ urlCall = [called |-> FALSE, err |-> FALSE, infoURL |-> "", ret |-> ""]
    /\ payloads = RunPayloads
    /\ stopErr = FALSE
    /\ forwarded = NoForward

NextLedger ==
    \/ \E p \in Handlers : AddToHistoryCall(p) /\ UNCHANGED sessionVars
    \/ \E p \in Handlers : AddInteractshURLCall(p) /\ UNCHANGED sessionVars
    \/ \E p \in Readers : pc[p] = "ready" /\ DumpHistoryCall(p) /\ UNCHANGED sessionVars
    \/ \E p \in Procs : AddToHistoryLock(p) /\ UNCHANGED sessionVars
    \/ \E p \in Procs : AddToHistoryStore(p) /\ UNCHANGED sessionVars
    \/ \E p \in Procs : AddInteractshURLLock(p) /\ UNCHANGED sessionVars
    \/ \E p \in Procs : AddInteractshURLStore(p) /\ UNCHANGED sessionVars
    \/ \E p \in Procs : DumpHistoryRLock(p) /\ UNCHANGED sessionVars
    \/ \E p \in Procs : DumpHistoryIterate(p) /\ UNCHANGED sessionVars
    \/ \E p \in Procs : DumpHistoryReturn(p) /\ UNCHANGED sessionVars

SpecLedger == InitLedger /\ [][NextLedger]_vars

\* p acquires the mutex: Lock (lines 133, 140) or RLock (line 120)
Acquire(p) ==
    (AddToHistoryLock(p) \/ AddInteractshURLLock(p) \/ DumpHistoryRLock(p))
    /\ UNCHANGED sessionVars

\* p's steps while it holds the mutex, its release included
Proceed(p) ==
    (AddToHistoryStore(p) \/ AddInteractshURLStore(p) \/ DumpHistoryIterate(p)
        \/ DumpHistoryReturn(p))
    /\ UNCHANGED sessionVars

\* The ledger calls with one entry each, as the handlers make them (the number
\* of entries of a call plays no part in the locking).
NextLedgerFair ==
    \/ \E p \in Handlers :
          AddToHistoryCall(p) /\ Len(arg'[p]) = 1 /\ UNCHANGED sessionVars
    \/ \E p \in Handlers :
          AddInteractshURLCall(p) /\ Len(arg'[p]) = 1 /\ UNCHANGED sessionVars
    \/ \E p \in Readers : pc[p] = "ready" /\ DumpHistoryCall(p) /\ UNCHANGED sessionVars
    \/ \E p \in Procs : AddToHistoryLock(p) /\ UNCHANGED sessionVars
    \/ \E p \in Procs : AddToHistoryStore(p) /\ UNCHANGED sessionVars
    \/ \E p \in Procs : AddInteractshURLLock(p) /\ UNCHANGED sessionVars
    \/ \E p \in Procs : AddInteractshURLStore(p) /\ UNCHANGED sessionVars
    \/ \E p \in Procs : DumpHistoryRLock(p) /\ UNCHANGED sessionVars
    \/ \E p \in Procs : DumpHistoryIterate(p) /\ UNCHANGED sessionVars
    \/ \E p \in Procs : DumpHistoryReturn(p) /\ UNCHANGED sessionVars

\* Scheduling: a runnable goroutine is eventually run, and a goroutine waiting
\* for a mutex that is free again and again eventually gets it.  The callers
\* need not call.
SpecLedgerFair ==
    /\ InitLedger
    /\ [][NextLedgerFair]_vars
    /\ \A p \in Procs : WF_vars(Proceed(p)) /\ SF_vars(Acquire(p))

\* ------------------------------------------------------------- rule application
\* A session under RuleHijack whose pipeline has recorded a rule list; the
\* request-stage handler forwards outbound requests.
InitRules ==
    /\ actions = <<>>
    /\ customAgent \in BOOLEAN
    /\ runPc = "returned"
    /\ ret = RunSuccess
    /\ tab = "open"
    /\ rules \in RuleLists
    /\ hijackRouter = "set"
    /\ hijackNative = "nil"
    /\ routerRunning = TRUE
    /\ nativeRunning = FALSE
    /\ History = <<>>
    /\ InteractshURLs = <<>>
    /\ mutex = [w |-> 0, r |-> {}]
    /\ pc = [p \in Procs |-> IF p \in Handlers THEN "idle" ELSE "ready"]
    /\ arg = [p \in Procs |-> <<>>]
    /\ tmp = [p \in Procs |-> <<>>]
    /\ idx = [p \in Procs |-> 0]
    /\ dump = [p \in Procs |-> <<>>]
    /\ closePc = "idle"
    /\ closed = FALSE
    /\ urlCall = [called |-> FALSE, err |-> FALSE, infoURL |-> "", ret |-> ""]
    /\ payloads = RunPayloads
    /\ stopErr = FALSE
    /\ forwarded = NoForward

NextRules == HandlerForward

SpecRules == InitRules /\ [][NextRules]_vars

\* ------------------------------------------------------------- properties

\* some rule's action type or some action's type is a request-modifying one
Mutating(rs, as) ==
    \/ \E i \in DOMAIN rs : rs[i].Action \in ModificationTypes
    \/ \E i \in DOMAIN as : as[i] \in ModificationTypes

\* C1: once Run has passed the hijack installation (and until it hands the
\* action list to the pipeline) the request-stage router is installed exactly
\* when some rule or some action has a modifying type, and the response-stage
\* native hijack exactly when none has; a failed installation can only be the
\* router's, and leaves neither installed.
C1_ModeSelection ==
    /\ runPc \in {"viewport", "headers", "execute"} =>
          /\ (hijackRouter = "set") <=> Mutating(rules, actions)
          /\ (hijackNative = "set") <=> ~Mutating(rules, actions)
    /\ (runPc = "returned" /\ ret.err = "hijackRouter.Add") =>
          /\ Mutating(rules, actions)
          /\ hijackRouter = "nil"
          /\ hijackNative = "nil"

\* C1's case: a two-action list whose only modifying action is the last one
\* (SetBody) got the router
C1_Witness ==
    /\ runPc = "viewport"
    /\ hijackRouter = "set"
    /\ routerRunning
    /\ Len(actions) = 2
    /\ actions[1] = "ActionNavigate"
    /\ actions[2] = "ActionSetBody"

\* C2: after a Run that returned an error, neither the router nor the native
\* loop installed by that Run is running.
C2_NoHijackLeftRunning ==
    (runPc = "returned" /\ ret.err # "nil") => (~routerRunning /\ ~nativeRunning)

\* C3: Run returns (data, session, no error) or (nothing, no session, error);
\* before it returns there is no result; and a failure is returned from the
\* stage where it happened, nothing of the later stages having been done.
C3_ReturnShape ==
    /\ runPc # "returned" => ret = NoReturn
    /\ runPc = "returned" =>
          \/ ret.err = "nil" /\ ret.page = "createdPage" /\ ret.data = "map"
          \/ ret.err # "nil" /\ ret.page = "nil" /\ ret.data = "nil"
    /\ ret.err = "engine.Page" => tab = "none"
    /\ ret.err = "page.SetUserAgent" => customAgent
    /\ ret.err \in {"engine.Page", "page.SetUserAgent", "hijackRouter.Add"} =>
          hijackRouter = "nil" /\ hijackNative = "nil"
    /\ ret.err \in {"engine.Page", "page.SetUserAgent", "hijackRouter.Add",
                    "page.SetViewport", "page.SetExtraHeaders"} =>
          actions # <<>> /\ History = <<>>

\* C3's case: the extra-header configuration failed and Run returned its error
C3_Witness ==
    /\ runPc = "returned"
    /\ ret = RunFailure("page.SetExtraHeaders")
    /\ hijackNative = "set"

\* C4 as claimed: when the pipeline failed with exchanges already recorded, the
\* caller holds the session they can be read from.
C4_HistoryRetrievable ==
    (runPc = "returned" /\ ret.err = "ExecuteActions" /\ History # <<>>) =>
        ret.page = "createdPage"

\* C4 as amended: when the pipeline fails, the entries recorded so far stay in
\* the session's History and InteractshURLs untouched, but Run returns no
\* session, so the caller has no handle to read them from.
C4_HistoryKeptNoHandle ==
    [][(runPc = "actions" /\ ret'.err = "ExecuteActions") =>
          /\ History' = History
          /\ InteractshURLs' = InteractshURLs
          /\ ret'.page = "nil"
          /\ ~HasSession']_vars

\* C4's case: the pipeline failed after an exchange was recorded
C4_Witness ==
    /\ runPc = "returned"
    /\ ret.err = "ExecuteActions"
    /\ Len(History) >= 1

\* what a Close can affect
closeEffects == <<tab, routerRunning, nativeRunning, hijackRouter, hijackNative,
                  rules, History, InteractshURLs, mutex, ret, closed>>

\* C5: once a Close has returned, every step of a further Close leaves the
\* session as it was (hijack stopped, tab closed, ledgers untouched), and a
\* Close that has begun can always take its next step (it neither blocks nor
\* fails).
C5_CloseIdempotent ==
    /\ [][(closed /\ closePc' # closePc) => UNCHANGED closeEffects]_vars
    /\ [](closePc = "native" => ENABLED CloseStopNative)
    /\ [](closePc = "page" => ENABLED ClosePage)

\* C5's case: the second Close has stopped the hijack again and is about to
\* close the closed tab
C5_Witness ==
    /\ closed
    /\ closePc = "page"
    /\ tab = "closed"

\* C6: once Close has returned, History and InteractshURLs never change.
C6_NoAppendAfterClose ==
    [][closed => (History' = History /\ InteractshURLs' = InteractshURLs)]_vars

\* the goroutines whose addToHistory call has returned
Recorded == {h \in Handlers : pc[h] = "recorded"}

\* the positions of History holding entry j of goroutine h
Positions(h, j) == {i \in DOMAIN History : History[i] = HistoryData(h, j)}

\* C7: whatever the interleaving, History holds exactly the entries of the
\* addToHistory calls that have returned: each of them once, each an intact
\* pair of one exchange's request and response, in the call's order, and
\* nothing else; with every call returned that is N calls, N batches.
C7_ExactlyTheAppended ==
    /\ \A h \in Recorded : \A j \in DOMAIN arg[h] :
          /\ arg[h][j] = HistoryData(h, j)
          /\ Cardinality(Positions(h, j)) = 1
    /\ \A h \in Recorded : \A j \in 1..(Len(arg[h]) - 1) :
          \A i \in Positions(h, j) : (i + 1) \in Positions(h, j + 1)
    /\ (\A h \in Handlers : pc[h] \in {"caller", "addInteractshURL", "storeURLs", "recorded", "done"}) =>
          \A i \in DOMAIN History :
              \E h \in Recorded : \E j \in DOMAIN arg[h] : History[i] = arg[h][j]

\* C7's case: every goroutine appended concurrently, one of them a batch of two
C7_Witness ==
    /\ Recorded = Handlers
    /\ Len(History) > NumHandlers

\* the text DumpHistory is to return for history hs
RECURSIVE ExpectedDump(_)
ExpectedDump(hs) ==
    IF hs = <<>> THEN <<>>
    ELSE Head(hs).RawRequest \o Head(hs).RawResponse \o ExpectedDump(Tail(hs))

\* the first k entries of History end at the end of a batch
WholeBatches(k) ==
    \A h \in Handlers : \A j \in 1..MaxBatch :
        (\E i \in 1..k : History[i] = HistoryData(h, j)) =>
            \A j2 \in 1..MaxBatch :
                (\E i \in DOMAIN History : History[i] = HistoryData(h, j2)) =>
                    (\E i \in 1..k : History[i] = HistoryData(h, j2))

\* C8: what a DumpHistory call returned is, in every later state, the dump of
\* a prefix of History that ends at a batch boundary.
C8_DumpIsPrefixSnapshot ==
    \A r \in Readers : pc[r] = "dumped" =>
        \E k \in 0..Len(History) :
            /\ dump[r] = ExpectedDump(SubSeq(History, 1, k))
            /\ WholeBatches(k)

\* C8's case: a dump taken between two appends: it returned some entries and
\* History has grown since
C8_Witness ==
    \E r \in Readers :
        /\ pc[r] = "dumped"
        /\ dump[r] # <<>>
        /\ Len(dump[r]) < Len(ExpectedDump(History))

\* C9: a DumpHistory call returns the requests and responses of the History of
\* that moment, concatenated in append order (nothing for an empty History),
\* and no step of the call changes History.
C9_DumpIsConcatenation ==
    [][\A r \in Readers :
          /\ (pc[r] = "range" /\ pc'[r] = "dumped") => dump'[r] = ExpectedDump(History)
          /\ (pc[r] \in {"DumpHistory", "range"} /\ (pc'[r] # pc[r] \/ idx'[r] # idx[r])) =>
                (History' = History /\ InteractshURLs' = InteractshURLs)]_vars

\* C9's case: a dump of three entries has returned
C9_Witness ==
    \E r \in Readers :
        /\ pc[r] = "dumped"
        /\ Len(History) = 3
        /\ dump[r] = ExpectedDump(History)

\* C10: a URL call returns the empty string when the lookup failed and the
\* looked-up URL otherwise, and changes nothing of the session.
C10_URLBestEffort ==
    [][urlCall' # urlCall =>
          /\ urlCall'.err => urlCall'.ret = ""
          /\ ~urlCall'.err => urlCall'.ret = urlCall'.infoURL
          /\ UNCHANGED <<runVars, tab, routerRunning, nativeRunning, ledgerVars,
                         closePc, closed, stopErr, forwarded>>]_vars

\* C10's case: URL was called on a closed session and the lookup failed
C10_Witness ==
    /\ closed
    /\ urlCall.called
    /\ urlCall.err
    /\ urlCall.ret = ""

\* the last rule of rs that sets, adds or deletes header n, 0 if there is none
LastHeaderRule(rs, n) ==
    LET touching == {i \in DOMAIN rs :
                        /\ rs[i].Action \in {"ActionSetHeader", "ActionAddHeader",
                                             "ActionDeleteHeader"}
                        /\ rs[i].name = n}
    IN IF touching = {} THEN 0
       ELSE CHOOSE i \in touching : \A k \in touching : k <= i

\* C11: under RuleHijack the rules are applied in rule order and the later
\* rule wins: a header whose SetHeader rule is followed by a DeleteHeader rule
\* for the same name, that DeleteHeader being the last rule on the header, is
\* absent from the forwarded request, whatever the request carried; a header
\* whose last rule is a SetHeader carries exactly that rule's value.
C11_LaterRuleWins ==
    forwarded.done =>
        \A n \in HeaderNames :
            LET last == LastHeaderRule(rules, n)
            IN /\ ( /\ last # 0
                    /\ rules[last].Action = "ActionDeleteHeader"
                    /\ \E i \in 1..(last - 1) :
                          rules[i].Action = "ActionSetHeader" /\ rules[i].name = n )
                  => forwarded.out.headers[n] = <<>>
               /\ (last # 0 /\ rules[last].Action = "ActionSetHeader")
                  => forwarded.out.headers[n] = <<rules[last].value>>
               /\ last = 0 => forwarded.out.headers[n] = forwarded.req.headers[n]

\* a request that carried X-Test was forwarded under SetHeader X-Test then
\* DeleteHeader X-Test
C11_Witness ==
    /\ forwarded.done
    /\ Len(rules) = 2
    /\ rules[1].Action = "ActionSetHeader"
    /\ rules[1].name = "X-Test"
    /\ rules[2].Action = "ActionDeleteHeader"
    /\ rules[2].name = "X-Test"
    /\ forwarded.req.headers["X-Test"] # <<>>
    /\ forwarded.out.headers["X-Test"] = <<>>

\* C14: from the end of the installation on (viewport and header
\* configuration, the pipeline's run) the session's interception loop is
\* running, so no exchange takes place while the session is not intercepting.
C14_InterceptingBeforeActions ==
    runPc \in {"viewport", "headers", "execute", "actions"}
        => (routerRunning \/ nativeRunning)

\* C16: when Run has returned an error after the tab was created, the tab has
\* been closed.
C16_FailedRunClosesTab ==
    (runPc = "returned" /\ ret.err # "nil" /\ tab # "none") => tab = "closed"

\* C12: in every Close the hijack is stopped before the tab is released: when
\* Close reaches the tab's release, and whenever the tab is closed, no hijack
\* loop is running; and Close reaches the release and can close the tab
\* whether or not Stop returned an error.
C12_StopBeforeRelease ==
    /\ [](closePc = "page" => (~routerRunning /\ ~nativeRunning /\ ENABLED ClosePage))
    /\ [](tab = "closed" => (~routerRunning /\ ~nativeRunning))
    /\ [][tab' # tab => (~routerRunning /\ ~nativeRunning /\ routerRunning' = routerRunning
                          /\ nativeRunning' = nativeRunning) \/ tab = "none"]_vars

\* a Close whose Stop of a running router failed has closed the tab
C12_Witness ==
    /\ closed
    /\ stopErr
    /\ tab = "closed"
    /\ hijackRouter = "set"
    /\ ~routerRunning

\* exactly one of the two hijack handles is set
ExactlyOneHijack ==
    /\ hijackRouter = "set" \/ hijackNative = "set"
    /\ hijackRouter = "nil" \/ hijackNative = "nil"

\* C13: the hijack mode is decided once, in Run's installation step before the
\* pipeline runs, and never changes: the handles change only in that step,
\* exactly one of them is set while the pipeline runs and in every state of a
\* returned session, and no later step (appends, DumpHistory, URL, Close)
\* sets, clears or swaps them.
C13_ModeFixedOnce ==
    /\ []((runPc \in {"execute", "actions"} \/ HasSession) => ExactlyOneHijack)
    /\ [][<<hijackRouter, hijackNative>>' # <<hijackRouter, hijackNative>>
            => (runPc = "hijack" /\ hijackRouter = "nil" /\ hijackNative = "nil")]_vars

\* a returned session that has recorded exchanges, answered URL and been
\* closed still has its one handle
C13_Witness ==
    /\ HasSession
    /\ closed
    /\ urlCall.called
    /\ Len(History) >= 1
    /\ \E p \in Procs : dump[p] # <<>>
    /\ hijackNative = "set"
    /\ hijackRouter = "nil"

\* s is a prefix of t
IsPrefix(s, t) == Len(s) <= Len(t) /\ SubSeq(t, 1, Len(s)) = s

\* C15: History and InteractshURLs are append-only: in every step of every
\* interleaving of addToHistory, addInteractshURL, DumpHistory, URL and Close,
\* the value before the step is a prefix of the value after it.
C15_AppendOnly ==
    [][IsPrefix(History, History') /\ IsPrefix(InteractshURLs, InteractshURLs')]_vars

\* both ledgers have grown twice, DumpHistory, URL and Close have run
C15_Witness ==
    /\ Len(History) = 2
    /\ Len(InteractshURLs) = 2
    /\ \E p \in Procs : dump[p] # <<>>
    /\ urlCall.called
    /\ closed

\* goroutine p takes a step of a call whose positions are the set at
StepOf(p, at) == pc[p] \in at /\ <<pc[p], idx[p]>>' # <<pc[p], idx[p]>>

\* the session's fields besides the mutex and the two ledgers
fixedFields == <<rules, payloads, hijackRouter, hijackNative, tab>>

\* C17: every step of addToHistory changes, of the session's data, only
\* History; every step of addInteractshURL only InteractshURLs; a step of
\* DumpHistory neither; and none of the three changes the rules, the payloads
\* or the installed hijack.
C17_Frame ==
    [][\A p \in Procs :
         /\ StepOf(p, {"addToHistory", "storeHistory"})
               => UNCHANGED <<InteractshURLs, fixedFields>>
         /\ StepOf(p, {"addInteractshURL", "storeURLs"})
               => UNCHANGED <<History, fixedFields>>
         /\ StepOf(p, {"DumpHistory", "range"})
               => UNCHANGED <<History, InteractshURLs, fixedFields>>]_vars

\* addToHistory, addInteractshURL and DumpHistory have all acted on a session
\* that still has its payloads and its hijack
C17_Witness ==
    /\ History # <<>>
    /\ InteractshURLs # <<>>
    /\ \E p \in Readers : pc[p] = "dumped" /\ dump[p] # <<>>
    /\ payloads = RunPayloads
    /\ hijackRouter = "set"
    /\ routerRunning

\* the goroutines inside an append's critical section
Writing == {p \in Procs : pc[p] \in {"storeHistory", "storeURLs"}}

\* the goroutines inside DumpHistory's critical section
Reading == {p \in Procs : pc[p] = "range"}

\* C19: the one mutex gives both ledgers exclusive-write/shared-read access:
\* at most one goroutine is inside an append (to either ledger), none is
\* while any DumpHistory is reading, the mutex records exactly those holders,
\* and a DumpHistory waiting for the read lock can take it whenever nobody is
\* writing, other readers or not.
C19_ExclusiveWriteSharedRead ==
    /\ [](Cardinality(Writing) <= 1)
    /\ [](Reading # {} => Writing = {})
    /\ [](mutex.r = Reading)
    /\ [](mutex.w = (IF Writing = {} THEN 0 ELSE CHOOSE p \in Writing : TRUE))
    /\ [](\A p \in Procs :
            (pc[p] = "DumpHistory" /\ Writing = {}) => ENABLED DumpHistoryRLock(p))

\* two DumpHistory calls are reading a non-empty History at the same time
C19_Witness ==
    /\ Cardinality(Reading) >= 2
    /\ History # <<>>
    /\ InteractshURLs # <<>>

\* p is inside addToHistory, addInteractshURL or DumpHistory
InCall(p) ==
    pc[p] \in {"addToHistory", "storeHistory", "addInteractshURL", "storeURLs",
               "DumpHistory", "range"}

\* p holds the mutex, for writing or for reading
Holds(p) == mutex.w = p \/ p \in mutex.r

\* C18: under fair scheduling every addToHistory, addInteractshURL and
\* DumpHistory call eventually returns with the lock released: again and
\* again no goroutine is inside a call and the mutex is free (a call that
\* never returned would end that); a goroutine outside these calls never holds
\* the mutex; and while some call is pending some goroutine can take a step
\* (no deadlock).
C18_CallsReturn ==
    /\ []<>((\A p \in Procs : ~InCall(p)) /\ mutex = [w |-> 0, r |-> {}])
    /\ [](\A p \in Procs : ~InCall(p) => ~Holds(p))
    /\ []((\E p \in Procs : InCall(p))
            => \E q \in Procs : ENABLED Acquire(q) \/ ENABLED Proceed(q))

\* every goroutine has made its call and returned, writers and readers alike
C18_Witness ==
    /\ \A p \in Handlers : pc[p] \in {"recorded", "done"}
    /\ \A p \in Readers : pc[p] = "dumped"
    /\ History # <<>>
    /\ InteractshURLs # <<>>
    /\ mutex = [w |-> 0, r |-> {}]

====
